---- MODULE Spec2Model ----
(***************************************************************************)
(* Model of trinity's sync orchestrator, SyncerPlugin                      *)
(* (trinity/plugins/builtin/syncer/plugin.py): strategy registry and mode  *)
(* resolution (configure_parser, on_ready), the resource barrier           *)
(* (handle_event), the runner (start / do_start) and the shutdown          *)
(* coordinator (handle_sync).                                              *)
(***************************************************************************)
EXTENDS Integers, Sequences, FiniteSets, TLC

\* ------------------------------------------------------------------------
\* Bounds of the model
\* ------------------------------------------------------------------------
\* longest candidate list handed to SyncerPlugin.__init__
MaxStrategies == 2
\* number of distinct resource objects of each kind that can be delivered
MaxVal == 2
\* number of get_p2p_server / get_peer_pool calls followed on a FullNode
MaxCalls == 5

\* ------------------------------------------------------------------------
\* Values
\* ------------------------------------------------------------------------
\* Python's None, for resource fields and for active_strategy
None == 0

\* resource objects (peer pools, db managers, chains) are identified by number
Values == 1..MaxVal

\* the cancel token that a peer-pool notification carries next to pool p
PairedToken(p) == 100 + p

\* mode strings are sequences of characters, so that lower() is computed
SYNC_FULL == <<"f", "u", "l", "l">>
SYNC_FAST == <<"f", "a", "s", "t">>
SYNC_LIGHT == <<"l", "i", "g", "h", "t">>
SYNC_NONE == <<"n", "o", "n", "e">>

UpperLetters ==
    <<"A", "B", "C", "D", "E", "F", "G", "H", "I", "J", "K", "L", "M",
      "N", "O", "P", "Q", "R", "S", "T", "U", "V", "W", "X", "Y", "Z">>

LowerLetters ==
    <<"a", "b", "c", "d", "e", "f", "g", "h", "i", "j", "k", "l", "m",
      "n", "o", "p", "q", "r", "s", "t", "u", "v", "w", "x", "y", "z">>

\* str.lower() on one character
LowerChar(c) ==
    IF \E k \in DOMAIN UpperLetters : UpperLetters[k] = c
    THEN LowerLetters[CHOOSE k \in DOMAIN UpperLetters : UpperLetters[k] = c]
    ELSE c

\* str.lower()
lower(s) == [k \in DOMAIN s |-> LowerChar(s[k])]

\* ------------------------------------------------------------------------
\* Strategy classes
\* ------------------------------------------------------------------------
\* the four strategy classes of the module, plus two classes another plugin
\* may register: a subclass of FullSyncStrategy (inherits get_sync_mode) and
\* a strategy whose mode is spelled in upper case
StrategyTypes ==
    {"NoopSyncStrategy", "FullSyncStrategy", "FastThenFullSyncStrategy",
     "LightSyncStrategy", "FullSubclassStrategy", "UpperFastStrategy"}

\* <class>.get_sync_mode()
get_sync_mode(t) ==
    CASE t = "NoopSyncStrategy" -> SYNC_NONE
      [] t = "FullSyncStrategy" -> SYNC_FULL
      [] t = "FastThenFullSyncStrategy" -> SYNC_FAST
      [] t = "LightSyncStrategy" -> SYNC_LIGHT
      [] t = "FullSubclassStrategy" -> SYNC_FULL
      [] t = "UpperFastStrategy" -> <<"F", "A", "S", "T">>

\* the no-op strategy without its override of the property
shutdown_node_on_halt_base(t) == TRUE

\* <class>.shutdown_node_on_halt: True in the base class, False for no-op
shutdown_node_on_halt(t) == t # "NoopSyncStrategy"

\* no-op sync() has no await: it logs and returns in the step that starts it
sync_returns_at_once(t) == t = "NoopSyncStrategy"

\* values of --sync-mode
SyncModes ==
    {<<"F", "U", "L", "L">>, SYNC_FAST, SYNC_LIGHT, SYNC_NONE,
     <<"w", "a", "r", "p">>}

\* all candidate lists of length 0..n
StrategyLists(n) == UNION {[1..k -> StrategyTypes] : k \in 0..n}

\* the candidate list of a node: the four built-in strategies
BuiltinStrategies ==
    <<"FullSyncStrategy", "FastThenFullSyncStrategy",
      "LightSyncStrategy", "NoopSyncStrategy">>

\* ------------------------------------------------------------------------
\* Resource types carried by ResourceAvailableEvent
\* ------------------------------------------------------------------------
ResourceTypes ==
    {"ETHPeerPool", "LESPeerPool", "BaseManager", "BaseChain", "FullChain",
     "Endpoint"}

\* issubclass(t, BaseChainPeerPool)
IsPeerPoolType(t) == t \in {"BaseChainPeerPool", "ETHPeerPool", "LESPeerPool"}

\* ------------------------------------------------------------------------
\* State
\* ------------------------------------------------------------------------
VARIABLES
    strategies,        \* self.strategies: sequence of strategy instances (by class)
    default_strategy,  \* self.default_strategy: a strategy class
    sync_mode,         \* self.context.args.sync_mode
    pc,                \* lifecycle position of the plugin
    parser,            \* the arguments configure_parser added to the argument parser
    active_strategy,   \* self.active_strategy: index into strategies, or None
    subscribed,        \* handle_event is subscribed to ResourceAvailableEvent
    peer_pool,         \* self.peer_pool
    cancel_token,      \* self.cancel_token
    db_manager,        \* self.db_manager
    chain,             \* self.chain
    running,           \* BasePlugin.running
    tasks,             \* the handle_sync tasks scheduled by do_start, in order
    shutdown_requests, \* reasons of the ShutdownRequest events broadcast
    first_seen,        \* the branches of handle_event taken so far, in order of first use
    ignored_at_ready,  \* handle_event fell through its if / elif chain with all three fields set
    node_token,        \* FullNode.cancel_token
    p2p_server,        \* FullNode._p2p_server: index into servers, or None
    servers,           \* the FullServer objects constructed, in order
    returned           \* what the calls on the FullNode returned, in order

config_vars == <<strategies, default_strategy, sync_mode>>
resource_vars == <<peer_pool, cancel_token, db_manager, chain>>
node_vars == <<node_token, p2p_server, servers, returned>>
plugin_vars == <<pc, parser, active_strategy, subscribed, peer_pool, cancel_token,
                 db_manager, chain, running, tasks, shutdown_requests,
                 first_seen, ignored_at_ready>>
vars == <<strategies, default_strategy, sync_mode, pc, parser, active_strategy,
          subscribed, peer_pool, cancel_token, db_manager, chain, running,
          tasks, shutdown_requests, first_seen, ignored_at_ready,
          node_token, p2p_server, servers, returned>>

\* class attributes of SyncerPlugin and the state left by __init__
InitPlugin ==
    /\ pc = "constructed"
    /\ parser = <<>>
    /\ active_strategy = None
    /\ subscribed = FALSE
    /\ peer_pool = None
    /\ cancel_token = None
    /\ db_manager = None
    /\ chain = None
    /\ running = FALSE
    /\ tasks = <<>>
    /\ shutdown_requests = <<>>
    /\ first_seen = <<>>
    /\ ignored_at_ready = FALSE

\* class attributes of FullNode: no server yet, no call made
InitNode ==
    /\ p2p_server = None
    /\ servers = <<>>
    /\ returned = <<>>

\* every candidate list, default strategy and configured mode
InitConfig ==
    /\ strategies \in StrategyLists(MaxStrategies)
    /\ default_strategy \in StrategyTypes
    /\ sync_mode \in SyncModes
    /\ InitPlugin
    /\ node_token = PairedToken(1)
    /\ InitNode

\* the candidate list and configured mode of a node: the built-in strategies
\* under every mode, and the built-in strategies followed by a strategy of
\* another plugin that has the mode of a built-in one, under that mode
NodeConfigs ==
    {<<BuiltinStrategies, m>> : m \in SyncModes} \cup
    {<<Append(BuiltinStrategies, "FullSubclassStrategy"), <<"F", "U", "L", "L">> >>}

\* a node before configure_parser
Init ==
    /\ \E c \in NodeConfigs :
           /\ strategies = c[1]
           /\ sync_mode = c[2]
    /\ default_strategy = "FullSyncStrategy"
    /\ InitPlugin
    /\ node_token = PairedToken(1)
    /\ InitNode

\* ------------------------------------------------------------------------
\* configure_parser
\* ------------------------------------------------------------------------
\* the modes put in lower case on the way
extract_modes_lowered(strats) == [k \in DOMAIN strats |-> lower(get_sync_mode(strats[k]))]

\* extract_modes(): the modes of the candidates, in order
extract_modes(strats) == [k \in DOMAIN strats |-> get_sync_mode(strats[k])]

\* extract_strategy_types(): the classes of the candidates, in order
extract_strategy_types(strats) == [k \in DOMAIN strats |-> strats[k]]

\* x in <tuple>
InTuple(x, tup) == \E k \in DOMAIN tup : tup[k] = x

\* the check made on the modes instead of the classes
default_missing_by_mode(strats, default) ==
    ~InTuple(get_sync_mode(default), extract_modes(strats))

\* the check that makes configure_parser raise ValidationError
default_missing(strats, default) == ~InTuple(default, extract_strategy_types(strats))

configure_parser ==
    /\ pc = "constructed"
    /\ IF default_missing(strategies, default_strategy)
       THEN /\ pc' = "config_error"
            /\ parser' = parser
       ELSE /\ pc' = "configured"
            /\ parser' = Append(parser, [option |-> "--sync-mode",
                                          choices |-> extract_modes(strategies),
                                          default |-> get_sync_mode(default_strategy)])
    /\ UNCHANGED <<config_vars, active_strategy, subscribed, resource_vars,
                   running, tasks, shutdown_requests, first_seen, ignored_at_ready, node_vars>>

\* ------------------------------------------------------------------------
\* on_ready
\* ------------------------------------------------------------------------
\* the comparison without lower()
mode_matches_exact(mode, configured) == mode = configured

\* the comparison of one candidate's mode with the configured mode
mode_matches(mode, configured) == lower(mode) = lower(configured)

\* the for loop of on_ready from candidate k on, with self.active_strategy =
\* active: the active strategy it leaves and whether it raised ValidationError
RECURSIVE on_ready_loop(_, _, _, _)
on_ready_loop(strats, configured, k, active) ==
    IF k > Len(strats)
    THEN [active |-> active, raised |-> FALSE]
    ELSE IF mode_matches(get_sync_mode(strats[k]), configured)
         THEN IF active # None
              THEN [active |-> active, raised |-> TRUE]
              ELSE on_ready_loop(strats, configured, k + 1, k)
         ELSE on_ready_loop(strats, configured, k + 1, active)

\* a missing return after the warning: on_ready subscribes in every case
on_ready_subscribes_always(active) == TRUE

\* whether on_ready reaches event_bus.subscribe(...): the return after the
\* warning keeps it from there when no strategy is active
on_ready_subscribes(active) == active # None

\* on_ready subscribing before it resolves the strategy
on_ready_subscribes_first ==
    /\ pc = "configured"
    /\ LET r == on_ready_loop(strategies, sync_mode, 1, active_strategy)
       IN /\ active_strategy' = r.active
          /\ IF r.raised
             THEN /\ pc' = "ambiguous"
                  /\ subscribed' = TRUE
             ELSE /\ pc' = IF r.active = None THEN "idle" ELSE "ready"
                  /\ subscribed' = on_ready_subscribes(r.active)
    /\ UNCHANGED <<config_vars, parser, resource_vars, running, tasks,
                   shutdown_requests, first_seen, ignored_at_ready, node_vars>>

on_ready ==
    /\ pc = "configured"
    /\ LET r == on_ready_loop(strategies, sync_mode, 1, active_strategy)
       IN /\ active_strategy' = r.active
          /\ IF r.raised
             THEN /\ pc' = "ambiguous"
                  /\ subscribed' = subscribed
             ELSE /\ pc' = IF r.active = None THEN "idle" ELSE "ready"
                  /\ subscribed' = on_ready_subscribes(r.active)
    /\ UNCHANGED <<config_vars, parser, resource_vars, running, tasks,
                   shutdown_requests, first_seen, ignored_at_ready, node_vars>>

\* ------------------------------------------------------------------------
\* start / do_start
\* ------------------------------------------------------------------------
\* the arguments of sync() / the resource fields, as one record
Resources(ch, db, pp, ct) ==
    [chain |-> ch, db_manager |-> db, peer_pool |-> pp, cancel_token |-> ct]

NoResources == Resources(None, None, None, None)

\* do_start running handle_sync to its end instead of scheduling it
do_start_blocking(ts, held) ==
    Append(ts, [state |-> "completed", args |-> held,
                at_launch |-> NoResources, args_as_launched |-> TRUE,
                token_set |-> FALSE])

\* do_start: asyncio.ensure_future(self.handle_sync()) schedules one more
\* task; at_launch holds the resource fields of that moment until the task
\* takes its first step, and args_as_launched then tells whether sync() was
\* given those
do_start(ts, held) ==
    Append(ts, [state |-> "scheduled", args |-> NoResources,
                at_launch |-> held, args_as_launched |-> TRUE,
                token_set |-> FALSE])

\* start delegating to do_start on every call
start_launches_always(is_running) == TRUE

\* BasePlugin.start: whether this call goes on to do_start
start_launches(is_running) == ~is_running

\* ------------------------------------------------------------------------
\* handle_event
\* ------------------------------------------------------------------------
\* the chain of tests made with issubclass throughout
event_branch_subclass(resource_type) ==
    IF IsPeerPoolType(resource_type) THEN "peer_pool"
    ELSE IF resource_type = "BaseManager" THEN "db_manager"
    ELSE IF resource_type \in {"BaseChain", "FullChain"} THEN "chain"
    ELSE "ignored"

\* the branch of the if / elif chain that a resource type takes
event_branch(resource_type) ==
    IF IsPeerPoolType(resource_type) THEN "peer_pool"
    ELSE IF resource_type = "BaseManager" THEN "db_manager"
    ELSE IF resource_type = "BaseChain" THEN "chain"
    ELSE "ignored"

\* the readiness check without the chain
all_available_no_chain(pp, db, ch) == pp # None /\ db # None

\* the readiness check with any in place of all
all_available_any(pp, db, ch) == pp # None \/ db # None \/ ch # None

\* None not in (self.peer_pool, self.db_manager, self.chain)
all_available(pp, db, ch) == pp # None /\ db # None /\ ch # None

\* the resource an event of this type carries for the object numbered v
event_resource(resource_type, v) ==
    IF IsPeerPoolType(resource_type) THEN <<v, PairedToken(v)>> ELSE <<v>>

\* the peer-pool branch storing the pool and forgetting the token
unpack_peer_pool_only(resource) == [peer_pool |-> resource[1], cancel_token |-> None]

\* self.peer_pool, self.cancel_token = event.resource
unpack_peer_pool(resource) == [peer_pool |-> resource[1], cancel_token |-> resource[2]]

\* a field that keeps the first resource it was given
assign_if_unset(old, delivered) == IF old = None THEN delivered ELSE old

\* self.<field> = <delivered>: the assignment replaces what the field held
assign(old, delivered) == delivered

handle_event(resource_type, resource) ==
    /\ subscribed
    /\ LET b == event_branch(resource_type)
           pp == IF b = "peer_pool"
                 THEN assign(peer_pool, unpack_peer_pool(resource).peer_pool)
                 ELSE peer_pool
           ct == IF b = "peer_pool"
                 THEN assign(cancel_token, unpack_peer_pool(resource).cancel_token)
                 ELSE cancel_token
           db == IF b = "db_manager" THEN assign(db_manager, resource[1]) ELSE db_manager
           ch == IF b = "chain" THEN assign(chain, resource[1]) ELSE chain
       IN /\ peer_pool' = pp
          /\ cancel_token' = ct
          /\ db_manager' = db
          /\ chain' = ch
          /\ first_seen' = IF b = "ignored" \/ InTuple(b, first_seen)
                           THEN first_seen
                           ELSE Append(first_seen, b)
          /\ ignored_at_ready' =
                 (ignored_at_ready \/ (b = "ignored" /\ all_available(pp, db, ch)))
          /\ IF all_available(pp, db, ch)
             THEN /\ running' = TRUE
                  /\ tasks' = IF start_launches(running)
                              THEN do_start(tasks, Resources(ch, db, pp, ct))
                              ELSE tasks
             ELSE UNCHANGED <<running, tasks>>
    /\ UNCHANGED <<config_vars, pc, parser, active_strategy, subscribed,
                   shutdown_requests, node_vars>>

\* ------------------------------------------------------------------------
\* handle_sync
\* ------------------------------------------------------------------------
\* request_shutdown(self.event_bus, "Sync ended unexpectedly")
request_shutdown(reqs, reason) == Append(reqs, reason)

\* lines after the await: reached when sync() returned, skipped when it raised
after_sync(reqs, outcome, strategy_type) ==
    IF outcome = "failed"
    THEN reqs
    ELSE IF shutdown_node_on_halt(strategy_type)
         THEN request_shutdown(reqs, "Sync ended unexpectedly")
         ELSE reqs

\* the ways an awaited sync() ends: it returns when its algorithm is done,
\* returns after it saw the cancel token set, or raises
SyncOutcomes(task) ==
    {"completed", "failed"} \cup (IF task.token_set THEN {"cancelled"} ELSE {})

\* handle_sync requesting the shutdown before it awaits sync()
handle_sync_begin_shutdown_first(i) ==
    /\ i \in DOMAIN tasks
    /\ tasks[i].state = "scheduled"
    /\ LET args == Resources(chain, db_manager, peer_pool, cancel_token)
           t == strategies[active_strategy]
       IN /\ tasks' = [tasks EXCEPT ![i].state = "running", ![i].args = args,
                                     ![i].args_as_launched = (args = tasks[i].at_launch),
                                     ![i].at_launch = NoResources]
          /\ shutdown_requests' = after_sync(shutdown_requests, "completed", t)
    /\ UNCHANGED <<config_vars, pc, parser, active_strategy, subscribed,
                   resource_vars, running, first_seen, ignored_at_ready, node_vars>>

\* first step of task i: the arguments of sync() are read from the plugin;
\* the no-op sync returns within the step, the others suspend in syncer.run()
handle_sync_begin(i) ==
    /\ i \in DOMAIN tasks
    /\ tasks[i].state = "scheduled"
    /\ LET args == Resources(chain, db_manager, peer_pool, cancel_token)
           t == strategies[active_strategy]
       IN IF sync_returns_at_once(t)
          THEN /\ tasks' = [tasks EXCEPT ![i].state = "completed", ![i].args = args,
                                          ![i].args_as_launched = (args = tasks[i].at_launch),
                                          ![i].at_launch = NoResources]
               /\ shutdown_requests' = after_sync(shutdown_requests, "completed", t)
          ELSE /\ tasks' = [tasks EXCEPT ![i].state = "running", ![i].args = args,
                                          ![i].args_as_launched = (args = tasks[i].at_launch),
                                          ![i].at_launch = NoResources]
               /\ shutdown_requests' = shutdown_requests
    /\ UNCHANGED <<config_vars, pc, parser, active_strategy, subscribed,
                   resource_vars, running, first_seen, ignored_at_ready, node_vars>>

\* the cancel token handed to the running sync of task i is triggered
cancel_token_trigger(i) ==
    /\ i \in DOMAIN tasks
    /\ tasks[i].state = "running"
    /\ tasks[i].args.cancel_token # None
    /\ ~tasks[i].token_set
    /\ tasks' = [tasks EXCEPT ![i].token_set = TRUE]
    /\ UNCHANGED <<config_vars, pc, parser, active_strategy, subscribed,
                   resource_vars, running, shutdown_requests, first_seen, ignored_at_ready, node_vars>>

\* handle_sync dropping the strategy once its sync has ended
handle_sync_resume_clears(i, outcome) ==
    /\ i \in DOMAIN tasks
    /\ tasks[i].state = "running"
    /\ outcome \in SyncOutcomes(tasks[i])
    /\ tasks' = [tasks EXCEPT ![i].state = outcome]
    /\ shutdown_requests' =
           after_sync(shutdown_requests, outcome, strategies[active_strategy])
    /\ active_strategy' = None
    /\ UNCHANGED <<config_vars, pc, parser, subscribed,
                   resource_vars, running, first_seen, ignored_at_ready, node_vars>>

\* the awaited sync() of task i ends and handle_sync runs to its end
handle_sync_resume(i, outcome) ==
    /\ i \in DOMAIN tasks
    /\ tasks[i].state = "running"
    /\ outcome \in SyncOutcomes(tasks[i])
    /\ tasks' = [tasks EXCEPT ![i].state = outcome]
    /\ shutdown_requests' =
           after_sync(shutdown_requests, outcome, strategies[active_strategy])
    /\ UNCHANGED <<config_vars, pc, parser, active_strategy, subscribed,
                   resource_vars, running, first_seen, ignored_at_ready, node_vars>>

\* ------------------------------------------------------------------------
\* FullNode.get_p2p_server / get_peer_pool
\* ------------------------------------------------------------------------
\* the FullServer built n-th: it keeps the token it is given and owns a peer
\* pool of its own
FullServer(token, n) == [token |-> token, peer_pool |-> n]

\* get_p2p_server building a server on every call
server_missing_always(server) == TRUE

\* if self._p2p_server is None
server_missing(server) == server = None

\* the state get_p2p_server leaves; ok tells whether the construction of the
\* server, when one is made, goes through or raises
get_p2p_server(server, built, token, ok) ==
    IF server_missing(server)
    THEN IF ok
         THEN [raised |-> FALSE, server |-> Len(built) + 1,
               built |-> Append(built, FullServer(token, Len(built) + 1))]
         ELSE [raised |-> TRUE, server |-> server, built |-> built]
    ELSE [raised |-> FALSE, server |-> server, built |-> built]

\* a call of get_p2p_server on the node
call_get_p2p_server(ok) ==
    /\ Len(returned) < MaxCalls
    /\ LET r == get_p2p_server(p2p_server, servers, node_token, ok)
       IN /\ p2p_server' = r.server
          /\ servers' = r.built
          /\ returned' = Append(returned,
                 [call |-> "get_p2p_server", raised |-> r.raised,
                  result |-> IF r.raised THEN None ELSE r.server])
    /\ UNCHANGED <<config_vars, plugin_vars, node_token>>

\* a call of get_peer_pool on the node: self.get_p2p_server().peer_pool
call_get_peer_pool(ok) ==
    /\ Len(returned) < MaxCalls
    /\ LET r == get_p2p_server(p2p_server, servers, node_token, ok)
       IN /\ p2p_server' = r.server
          /\ servers' = r.built
          /\ returned' = Append(returned,
                 [call |-> "get_peer_pool", raised |-> r.raised,
                  result |-> IF r.raised THEN None
                             ELSE r.built[r.server].peer_pool])
    /\ UNCHANGED <<config_vars, plugin_vars, node_token>>

\* ------------------------------------------------------------------------
\* Specifications
\* ------------------------------------------------------------------------
deliver ==
    \E resource_type \in ResourceTypes, v \in Values :
        handle_event(resource_type, event_resource(resource_type, v))

begin_sync == \E i \in DOMAIN tasks : handle_sync_begin(i)

trigger_token == \E i \in DOMAIN tasks : cancel_token_trigger(i)

end_sync ==
    \E i \in DOMAIN tasks, outcome \in {"completed", "cancelled", "failed"} :
        handle_sync_resume(i, outcome)

Next ==
    \/ configure_parser
    \/ on_ready
    \/ deliver
    \/ begin_sync
    \/ trigger_token
    \/ end_sync

Spec == Init /\ [][Next]_vars

NextConfig ==
    \/ configure_parser
    \/ on_ready

SpecConfig == InitConfig /\ [][NextConfig]_vars

\* the sync that polls its cancel token returns once the token is set
cancelled_return == \E i \in DOMAIN tasks : handle_sync_resume(i, "cancelled")

\* the node with a sync algorithm that polls its cancel token
SpecLive == Init /\ [][Next]_vars /\ WF_vars(cancelled_return)

\* a FullNode of any cancel token, before its first call
InitFullNode ==
    /\ strategies = BuiltinStrategies
    /\ default_strategy = "FullSyncStrategy"
    /\ sync_mode = SYNC_NONE
    /\ InitPlugin
    /\ node_token \in {PairedToken(v) : v \in Values}
    /\ InitNode

get_server == \E ok \in BOOLEAN : call_get_p2p_server(ok)

get_pool == \E ok \in BOOLEAN : call_get_peer_pool(ok)

NextNode ==
    \/ get_server
    \/ get_pool

SpecNode == InitFullNode /\ [][NextNode]_vars

\* ------------------------------------------------------------------------
\* Properties
\* ------------------------------------------------------------------------
Terminal == {"completed", "cancelled", "failed"}

\* the resource fields the plugin holds now
Held == Resources(chain, db_manager, peer_pool, cancel_token)

\* on_ready has run, whatever its outcome
Resolved == pc \in {"ready", "idle", "ambiguous"}

C2_LaunchNeedsAllThree ==
    tasks # <<>> =>
        /\ Len(first_seen) = 3
        /\ all_available(peer_pool, db_manager, chain)
        /\ \A i \in DOMAIN tasks :
               tasks[i].state = "scheduled" =>
                   /\ tasks[i].at_launch.peer_pool # None
                   /\ tasks[i].at_launch.db_manager # None
                   /\ tasks[i].at_launch.chain # None

C2_Witness ==
    /\ tasks # <<>>
    /\ tasks[1].state = "scheduled"
    /\ tasks[1].at_launch = Held

\* C3 (as claimed): with a strategy that shuts the node down on halt, every
\* sync operation that has ended, normally, cancelled or with an error, has
\* been followed by exactly one shutdown request with a non-empty reason.
C3_ShutdownOnEveryTermination ==
    (pc = "ready" /\ shutdown_node_on_halt(strategies[active_strategy])) =>
        /\ Len(shutdown_requests) =
               Cardinality({i \in DOMAIN tasks : tasks[i].state \in Terminal})
        /\ \A k \in DOMAIN shutdown_requests : shutdown_requests[k] # ""

\* C4: in whichever order the three kinds of notification first arrive,
\* nothing is launched after the first or the second, and after the third
\* the sync operation is launched with all three resources held.
C4_LaunchOnThird ==
    /\ Len(first_seen) < 3 => tasks = <<>>
    /\ Len(first_seen) = 3 =>
           /\ Len(tasks) >= 1
           /\ all_available(peer_pool, db_manager, chain)

\* chain, then db manager, then peer pool
C4_Witness ==
    /\ first_seen = <<"chain", "db_manager", "peer_pool">>
    /\ Len(tasks) = 1

C6_NoopNeverShutsDown ==
    (active_strategy # None /\ strategies[active_strategy] = "NoopSyncStrategy")
        => shutdown_requests = <<>>

C6_Witness ==
    /\ active_strategy # None
    /\ strategies[active_strategy] = "NoopSyncStrategy"
    /\ tasks # <<>>
    /\ tasks[1].state = "completed"
    /\ shutdown_requests = <<>>

\* the modes of the candidates, as a set
CandidateModes == {get_sync_mode(strategies[k]) : k \in DOMAIN strategies}

\* the classes of the candidates, as a set
CandidateTypes == {strategies[k] : k \in DOMAIN strategies}

\* C7 (as claimed): configure_parser fails if and only if the mode of the
\* default strategy is not among the modes of the candidates.
C7_FailsIffModeMissing ==
    pc # "constructed" =>
        (pc = "config_error" <=> get_sync_mode(default_strategy) \notin CandidateModes)

\* C7 (amended): configure_parser fails if and only if the class of the
\* default strategy is not the class of any candidate; so it fails whenever
\* the default's mode is not among the candidates' modes.
C7_FailsIffTypeMissing ==
    pc # "constructed" =>
        /\ pc = "config_error" <=> default_strategy \notin CandidateTypes
        /\ get_sync_mode(default_strategy) \notin CandidateModes => pc = "config_error"

\* it failed although a candidate has the default's mode
C7_Witness ==
    /\ pc = "config_error"
    /\ get_sync_mode(default_strategy) \in CandidateModes

\* two characters are the same letter in either case, or the same character
SameCharIgnoringCase(a, b) ==
    \/ a = b
    \/ \E k \in DOMAIN UpperLetters :
           {a, b} = {UpperLetters[k], LowerLetters[k]}

\* two strings are equal but for the case of their letters
SameIgnoringCase(x, y) ==
    /\ Len(x) = Len(y)
    /\ \A k \in DOMAIN x : SameCharIgnoringCase(x[k], y[k])

\* the candidates whose mode is the configured mode but for case
Matching ==
    {k \in DOMAIN strategies : SameIgnoringCase(get_sync_mode(strategies[k]), sync_mode)}

\* C8: on_ready compares the configured mode with every candidate's mode
\* ignoring case; one match becomes the active strategy, two or more raise
\* the ambiguity error, none leaves no active strategy.
C8_Resolve ==
    Resolved =>
        /\ Cardinality(Matching) = 1 => (pc = "ready" /\ active_strategy \in Matching)
        /\ Cardinality(Matching) >= 2 => pc = "ambiguous"
        /\ Cardinality(Matching) = 0 => (pc = "idle" /\ active_strategy = None)

\* a single match that differs from the configured mode in case
C8_Witness ==
    /\ pc = "ready"
    /\ Cardinality(Matching) = 1
    /\ get_sync_mode(strategies[active_strategy]) # sync_mode

\* C9: when the configured mode matches no candidate, on_ready does not
\* subscribe, and from then on no resource field is set, no sync operation
\* is launched and no shutdown request is made.
C9_UnmatchedStaysIdle ==
    pc = "idle" =>
        /\ ~subscribed
        /\ Held = NoResources
        /\ tasks = <<>>
        /\ shutdown_requests = <<>>

C9_Witness ==
    /\ pc = "idle"
    /\ active_strategy = None
    /\ Matching = {}

\* C10: once on_ready has completed with an active strategy, no step
\* (notification, launch, termination of the sync) changes the active strategy.
C10_ActiveStrategyFixed ==
    [][pc = "ready" => active_strategy' = active_strategy]_vars

\* notifications were handled, the sync was launched and has ended
C10_Witness ==
    /\ pc = "ready"
    /\ active_strategy \in Matching
    /\ tasks # <<>>
    /\ tasks[1].state \in Terminal

\* the resource types handle_event has a branch for
ReactingTypes == {"ETHPeerPool", "LESPeerPool", "BaseManager", "BaseChain"}

Delivered(t, v) ==
    CASE IsPeerPoolType(t) ->
             /\ peer_pool' = v
             /\ cancel_token' = PairedToken(v)
             /\ UNCHANGED <<db_manager, chain>>
      [] t = "BaseManager" ->
             /\ db_manager' = v
             /\ UNCHANGED <<peer_pool, cancel_token, chain>>
      [] t = "BaseChain" ->
             /\ chain' = v
             /\ UNCHANGED <<peer_pool, cancel_token, db_manager>>

\* a notification of each of the three kinds can be handled, and handling it
\* sets its field to the delivered value and leaves the other fields
CanDeliver ==
    \A t \in ReactingTypes, v \in Values :
        /\ ENABLED (handle_event(t, event_resource(t, v)) /\ Delivered(t, v))
        /\ ~ENABLED (handle_event(t, event_resource(t, v)) /\ ~Delivered(t, v))

\* C12: a notification of one of the three kinds puts the delivered value in
\* its field (a peer-pool one the pool and its token) and leaves the other
\* fields as they were; whatever a field holds, a later notification of its
\* kind replaces it.
C12_LastWriterWins == subscribed => CanDeliver

\* every field was given another value after the sync had been given the first
C12_Witness ==
    /\ Len(tasks) = 1
    /\ tasks[1].state \in Terminal
    /\ tasks[1].args.chain # chain
    /\ tasks[1].args.db_manager # db_manager
    /\ tasks[1].args.peer_pool # peer_pool
    /\ cancel_token = PairedToken(peer_pool)

\* the cancel token was set while a sync operation is running
TokenSetMidSync ==
    \E i \in DOMAIN tasks : tasks[i].state = "running" /\ tasks[i].token_set

\* every sync operation has ended
AllEnded == tasks # <<>> /\ \A i \in DOMAIN tasks : tasks[i].state \in Terminal

\* C13 (as claimed): once the cancel token is set while the sync operation is
\* running, the operation eventually ends and, with a strategy that shuts the
\* node down on halt, a shutdown request has then been made.
C13_CancelLeadsToShutdown ==
    TokenSetMidSync ~>
        /\ AllEnded
        /\ shutdown_node_on_halt(strategies[active_strategy]) => shutdown_requests # <<>>

\* C14: when configure_parser succeeds, the --sync-mode argument has the
\* candidates' modes as its choices, in the candidates' order, and the
\* default strategy's mode as its default.
C14_ChoicesAndDefault ==
    pc \notin {"constructed", "config_error"} =>
        /\ Len(parser) = 1
        /\ Len(parser[1].choices) = Len(strategies)
        /\ \A k \in DOMAIN strategies :
               parser[1].choices[k] = get_sync_mode(strategies[k])
        /\ parser[1].default = get_sync_mode(default_strategy)

\* candidates full and light with full as the default
C14_Witness ==
    /\ pc = "configured"
    /\ strategies = <<"FullSyncStrategy", "LightSyncStrategy">>
    /\ default_strategy = "FullSyncStrategy"
    /\ parser[1].choices = <<SYNC_FULL, SYNC_LIGHT>>
    /\ parser[1].default = SYNC_FULL

\* a sync operation was launched and has not ended
InFlight == \E i \in DOMAIN tasks : tasks[i].state \in {"scheduled", "running"}

\* C15: no step of handle_event that launches the sync operation leaves it
\* other than scheduled, that is, run or waited for; and while the operation
\* is scheduled or running, notifications of each kind can be handled and
\* set their field.
C15_LaunchDoesNotBlock ==
    /\ ~ENABLED (deliver /\ Len(tasks') > Len(tasks)
                 /\ tasks'[Len(tasks')].state # "scheduled")
    /\ InFlight => CanDeliver

\* the chain was replaced while the sync operation is running
C15_Witness ==
    /\ Len(tasks) = 1
    /\ tasks[1].state = "running"
    /\ ~tasks[1].token_set
    /\ tasks[1].args.chain # chain

\* C16: a shutdown request is made only once a sync operation has ended:
\* never more requests than ended operations, so none before the launch or
\* while the only operation is scheduled or running.
C16_ShutdownOnlyAfterEnd ==
    Len(shutdown_requests) <=
        Cardinality({i \in DOMAIN tasks : tasks[i].state \in Terminal})

C16_Witness ==
    /\ Len(tasks) = 1
    /\ tasks[1].state = "cancelled"
    /\ Len(shutdown_requests) = 1

\* C17 (as claimed): the resources every sync operation was given are the
\* ones held when handle_event found all three set, whatever was handled
\* before the first step of handle_sync.
C17_ArgsAsAtReadiness ==
    \A i \in DOMAIN tasks : tasks[i].args_as_launched

\* C18: the peer pool and the cancel token held are the pair of one
\* peer-pool notification, and so are the pool and the token given to sync().
C18_PoolAndTokenPaired ==
    /\ peer_pool = None <=> cancel_token = None
    /\ peer_pool # None => cancel_token = PairedToken(peer_pool)
    /\ \A i \in DOMAIN tasks :
           tasks[i].state # "scheduled" =>
               tasks[i].args.cancel_token = PairedToken(tasks[i].args.peer_pool)

\* the pool was replaced while sync() runs with the earlier pair
C18_Witness ==
    /\ Len(tasks) = 1
    /\ tasks[1].state = "running"
    /\ tasks[1].args.peer_pool # peer_pool
    /\ tasks[1].args.cancel_token = PairedToken(tasks[1].args.peer_pool)
    /\ cancel_token = PairedToken(peer_pool)

\* C19: when on_ready raised the ambiguity error it has not subscribed, and
\* no resource field is set, no sync operation launched and no shutdown
\* request made afterwards.
C19_AmbiguousStaysIdle ==
    pc = "ambiguous" =>
        /\ ~subscribed
        /\ Held = NoResources
        /\ tasks = <<>>
        /\ shutdown_requests = <<>>

C19_Witness ==
    /\ pc = "ambiguous"
    /\ Cardinality(Matching) >= 2
    /\ ~subscribed

\* the calls that returned a server, and the ones that returned a peer pool
ServerResults ==
    {k \in DOMAIN returned : returned[k].call = "get_p2p_server" /\ ~returned[k].raised}

PoolResults ==
    {k \in DOMAIN returned : returned[k].call = "get_peer_pool" /\ ~returned[k].raised}

\* C20: whatever get_p2p_server and get_peer_pool calls were made on a
\* FullNode, at most one server was constructed, every get_p2p_server call
\* returned that server, every get_peer_pool call returned that server's
\* peer pool, and the server holds the node's cancel token.
C20_OneServerPerNode ==
    /\ Len(servers) <= 1
    /\ \A j \in ServerResults, k \in ServerResults :
           returned[j].result = returned[k].result
    /\ \A k \in ServerResults :
           returned[k].result \in DOMAIN servers
    /\ \A j \in ServerResults, k \in PoolResults :
           returned[k].result = servers[returned[j].result].peer_pool
    /\ \A j \in PoolResults, k \in PoolResults :
           returned[j].result = returned[k].result
    /\ \A k \in PoolResults :
           \E n \in DOMAIN servers : servers[n].peer_pool = returned[k].result
    /\ \A n \in DOMAIN servers : servers[n].token = node_token

\* a failed construction, then calls of both methods that returned
C20_Witness ==
    /\ Len(returned) >= 4
    /\ returned[1].raised
    /\ Cardinality(ServerResults) >= 2
    /\ Cardinality(PoolResults) >= 1
    /\ Len(servers) = 1

====
